---- MODULE Spec2Model ----
(***************************************************************************)
(* Bloom-filter record linkage with BLIP hardening:                        *)
(*   src/linkage/hashing.py    RandomHashing (seeded random hashing)       *)
(*   src/linkage/hardening.py  BLIP (per-bit randomisation)                *)
(*   src/linkage/encoder.py    read_extracted_data, calculate_k_opt,       *)
(*                             encode_bfs, compare_record_pairs, __main__  *)
(* and the sampler that writes the linkage program's input file:           *)
(*   src/data-sampler/main.py  process_based_on_freq                       *)
(*                                                                         *)
(* Bit vectors (bitarray) are sequences of 0/1; Python position pos is     *)
(* index pos + 1.  Strings (q-grams, salts) are sequences of character     *)
(* codes 1, 2, ...                                                         *)
(*                                                                         *)
(* Python's module-level generator `random` is ONE process-wide object.    *)
(* Its state is modelled as a window of RngWords words over                *)
(* 0 .. RngRange-1: the head word is the next output and the window        *)
(* shifts by a lagged recurrence, so that every sequence of RngWords       *)
(* consecutive outputs is produced by some state.                          *)
(***************************************************************************)
EXTENDS Integers, Sequences, FiniteSets, TLC

VARIABLES
    rng,                     \* state of the global `random` module generator
    RH,                      \* the RandomHashing instance
    blip,                    \* the BLIP instances, by name
    call,                    \* the library call made last (unit-level runs)
    ret,                     \* what that call returned
    pc,                      \* position of compare_record_pairs / __main__
    data_dict,               \* rec_type -> records, in dict insertion order
    all_records_to_compare,  \* the merged, shuffled pool of the current subset
    res_dict,                \* rec_type -> variant -> outcome counters
    rec_type,                \* loop variable of the subset loop (index)
    idx,                     \* position of the running inner loop
    cur,                     \* locals of the last processed query record
    hd_out,                  \* what each BLIP instance returned, per record id
    in_f,                    \* the input file: its header and its rows
    csv_reader,              \* lines of in_f the reader has consumed
    argv,                    \* the encoding and hardening parameters of sys.argv
    sampler                  \* locals of the sampler's process_based_on_freq

vars == <<rng, RH, blip, call, ret, pc, data_dict, all_records_to_compare,
          res_dict, rec_type, idx, cur, hd_out, in_f, csv_reader, argv, sampler>>

--------------------------------------------------------------------------
\* Bounds of the model

\* values of one generator word: 0 .. RngRange - 1
RngRange == 3
\* words in the generator's state window
RngWords == 2
\* largest Bloom filter length bf_len
MaxBfLen == 3
\* largest number of hash functions num_hash_funct
MaxK == 2
\* records per characteristic subset (1000 in the experiment)
SubsetSize == 2
\* records of the base sample, base_sample_size (1000000 in the experiment)
BaseSampleSize == 1

--------------------------------------------------------------------------
\* Values

\* Python None for salt_str: a value that is no string (0 is no character)
None == <<0>>

Bits == {0, 1}

BitVectors(n) == [1..n -> Bits]

Range(s) == {s[i] : i \in DOMAIN s}

\* all iteration orders of a set
Orders(S) == {s \in [1..Cardinality(S) -> S] : Range(s) = S}

\* bitarray.count(1)
count1(bf) == Cardinality({i \in DOMAIN bf : bf[i] = 1})


--------------------------------------------------------------------------
\* The `random` module

RngStates == [1..RngWords -> 0..(RngRange - 1)]

\* one word is output and the window shifts
RngNext(st) ==
    [i \in 1..RngWords |->
        IF i < RngWords THEN st[i + 1]
        ELSE (st[1] + st[RngWords] + 1) % RngRange]

RECURSIVE Pow(_, _)
Pow(b, e) == IF e = 0 THEN 1 ELSE b * Pow(b, e - 1)

\* random.seed(n): the state is a function of n alone
random_seed(n) ==
    [i \in 1..RngWords |-> (n \div Pow(RngRange, i - 1)) % RngRange]

\* random.random(): u = val / RngRange, in [0, 1)
random_random(st) == [val |-> st[1], rng |-> RngNext(st)]

\* random.randint(a, b): a <= val <= b
random_randint(a, b, st) == [val |-> a + (st[1] % (b - a + 1)), rng |-> RngNext(st)]

\* random.choice(seq)
random_choice(seq, st) == [val |-> seq[(st[1] % Len(seq)) + 1], rng |-> RngNext(st)]

Swap(x, i, j) == [x EXCEPT ![i] = x[j], ![j] = x[i]]

RECURSIVE shuffle_from(_, _, _)
\* for i in reversed(range(1, len(x))): j = randbelow(i + 1); swap x[i], x[j]
shuffle_from(x, i, st) ==
    IF i < 1 THEN [val |-> x, rng |-> st]
    ELSE LET j == st[1] % (i + 1)
         IN shuffle_from(Swap(x, i + 1, j + 1), i - 1, RngNext(st))

\* random.shuffle(x)
random_shuffle(x, st) == shuffle_from(x, Len(x) - 1, st)

--------------------------------------------------------------------------
\* hashing.py

RECURSIVE DigestFrom(_, _, _)
DigestFrom(mult, s, acc) ==
    IF s = <<>> THEN acc
    ELSE DigestFrom(mult, Tail(s), acc * mult + Head(s))

\* int(hash_funct(q_gram.encode("utf-8")).hexdigest(), 16): one integer per
\* string, different for different strings
Digest(hash_funct, s) ==
    DigestFrom(IF hash_funct = "md5" THEN 5 ELSE 7, s, 1)

\* a mutant of seed_for: the generator is not reseeded from the q-gram
seed_for_no_reseed(self, q_gram, st) == st

\* random.seed(int(hex_str, 16)) for one (salted) q-gram
seed_for(self, q_gram, st) == random_seed(Digest(self.hash_funct, q_gram))

\* a mutant of draw_pos: the upper end of the range is off by one
draw_pos_off_by_one(bf_len_m1, st) == random_randint(0, bf_len_m1 + 1, st)

\* pos_i = random.randint(0, bf_len_m1)
draw_pos(bf_len_m1, st) == random_randint(0, bf_len_m1, st)

RECURSIVE hash_positions(_, _, _, _)
\* for i in range(k): pos_i = random.randint(0, bf_len_m1); bf[pos_i] = 1;
\* q_gram_pos_set.add(pos_i)
hash_positions(i, bf_len_m1, bf, st) ==
    IF i = 0 THEN [bf |-> bf, q_gram_pos_set |-> {}, rng |-> st]
    ELSE LET d    == draw_pos(bf_len_m1, st)
             set1 == [bf EXCEPT ![d.val + 1] = 1]
             rest == hash_positions(i - 1, bf_len_m1, set1, d.rng)
         IN [bf |-> rest.bf,
             q_gram_pos_set |-> {d.val} \cup rest.q_gram_pos_set,
             rng |-> rest.rng]

RECURSIVE hash_loop(_, _, _, _)
\* for q_gram in q_gram_set: ... (q_grams is the set in iteration order)
hash_loop(self, q_grams, salt_str, acc) ==
    IF q_grams = <<>> THEN acc
    ELSE LET q_gram == IF salt_str # None THEN Head(q_grams) \o salt_str
                                          ELSE Head(q_grams)
             seeded == seed_for(self, q_gram, acc.rng)
             h      == hash_positions(self.num_hash_funct, self.bf_len - 1,
                                      acc.bf, seeded)
         IN hash_loop(self, Tail(q_grams), salt_str,
                [bf |-> h.bf,
                 q_gram_pos_dict |->
                     IF self.get_q_gram_pos
                        THEN (q_gram :> h.q_gram_pos_set) @@ acc.q_gram_pos_dict
                        ELSE acc.q_gram_pos_dict,
                 rng |-> h.rng])

\* RandomHashing.hash_q_gram_set(q_gram_set, salt_str); st is the state of
\* the global generator at the call, .rng its state at the return
hash_q_gram_set(self, q_grams, salt_str, st) ==
    hash_loop(self, q_grams, salt_str,
        [bf |-> [i \in 1..self.bf_len |-> 0], q_gram_pos_dict |-> <<>>, rng |-> st])

\* RandomHashing.__init__: the instances its assertions let through
RandomHashing(hash_funct, bf_len, num_hash_funct, get_q_gram_pos) ==
    [hash_funct |-> hash_funct, bf_len |-> bf_len,
     num_hash_funct |-> num_hash_funct, get_q_gram_pos |-> get_q_gram_pos]

--------------------------------------------------------------------------
\* hardening.py

\* BLIP.__init__; blip_prob is the numerator of blip_prob / RngRange
BLIP(sel_method, blip_prob, random_seed_arg) ==
    [sel_method |-> sel_method, blip_prob |-> blip_prob,
     random_seed |-> random_seed_arg]

\* a mutant of harden_bit: the two selection methods are swapped
harden_bit_swapped(self, bit, st) ==
    LET r == random_random(st)
    IN IF r.val <= self.blip_prob
          THEN IF self.sel_method = "sch"
                  THEN [val |-> 1 - bit, rng |-> r.rng]
                  ELSE random_choice(<<0, 1>>, r.rng)
          ELSE [val |-> bit, rng |-> r.rng]

\* a mutant of harden_bit: a position is selected only when rand < blip_prob
harden_bit_strict(self, bit, st) ==
    LET r == random_random(st)
    IN IF r.val < self.blip_prob
          THEN IF self.sel_method = "ala"
                  THEN [val |-> IF bit = 0 THEN 1 ELSE 0, rng |-> r.rng]
                  ELSE random_choice(<<0, 1>>, r.rng)
          ELSE [val |-> bit, rng |-> r.rng]

\* one pass of the loop body of harden_bf, for one position
harden_bit(self, bit, st) ==
    LET r == random_random(st)
    IN IF r.val <= self.blip_prob
          THEN IF self.sel_method = "ala"
                  THEN [val |-> IF bit = 0 THEN 1 ELSE 0, rng |-> r.rng]
                  ELSE random_choice(<<0, 1>>, r.rng)
          ELSE [val |-> bit, rng |-> r.rng]

RECURSIVE harden_from(_, _, _, _, _)
\* for pos in range(bf_len): ...; blip_bf[pos] = new_bit
harden_from(self, bf, pos, blip_bf, st) ==
    IF pos >= Len(bf) THEN [bf |-> blip_bf, rng |-> st]
    ELSE LET b == harden_bit(self, bf[pos + 1], st)
         IN harden_from(self, bf, pos + 1, Append(blip_bf, b.val), b.rng)

\* BLIP.harden_bf(bf)
harden_bf(self, bf, st) == harden_from(self, bf, 0, <<>>, st)

--------------------------------------------------------------------------
\* Unit-level runs of the two library classes on the shared generator
\* (the __main__ test of hashing.py, and the same for hardening.py): any
\* sequence of hash_q_gram_set, harden_bf and random.shuffle calls

\* default of BLIP.__init__'s random_seed
RANDOM_SEED == 42

\* the q-gram sets the hashing test hashes
TestQGramSets ==
    {{}, {<<1, 1>>}, {<<1, 2>>, <<2, 1>>}, {<<2, 1>>, <<2, 2>>},
     {<<1, 1>>, <<1, 2>>, <<2, 2>>}}

\* the salts tried: none, or a one-character string
TestSalts == {None, <<1>>}

NoCall == [name |-> "none", by |-> "none", q_gram_set |-> {},
           salt_str |-> None, bf |-> <<>>]

NoRet == [bf |-> <<>>, q_gram_pos_dict |-> <<>>, list |-> <<>>]

\* process_based_on_freq has not been called
NoSampler == <<>>

NoPipeline ==
    /\ data_dict = <<>>
    /\ all_records_to_compare = <<>>
    /\ res_dict = <<>>
    /\ rec_type = 0
    /\ idx = 0
    /\ cur = <<>>
    /\ hd_out = <<>>
    /\ in_f = <<>>
    /\ csv_reader = 0
    /\ argv = <<>>
    /\ sampler = NoSampler

\* the hashing test: any RandomHashing instance, any generator state
InitHash ==
    /\ pc = "hash_test"
    /\ rng \in RngStates
    /\ \E hf \in {"md5", "sha1"}, l \in 2..MaxBfLen, k \in 1..MaxK, g \in BOOLEAN :
           RH = RandomHashing(hf, l, k, g)
    /\ blip = [i \in {"hd_instance1", "hd_instance2"} |-> BLIP("sch", 1, RANDOM_SEED)]
    /\ call = NoCall
    /\ ret = NoRet
    /\ NoPipeline

\* the hardening test: any two BLIP instances as compare_record_pairs makes
\* them, any generator state
InitHarden ==
    /\ pc = "harden_test"
    /\ rng \in RngStates
    /\ \E l \in 2..MaxBfLen : RH = RandomHashing("md5", l, 1, FALSE)
    /\ \E m \in {"ala", "sch"}, p \in 0..RngRange :
           blip = [i \in {"hd_instance1", "hd_instance2"} |-> BLIP(m, p, RANDOM_SEED)]
    /\ call = NoCall
    /\ ret = NoRet
    /\ NoPipeline

PipelineUnchanged ==
    UNCHANGED <<pc, data_dict, all_records_to_compare, res_dict, rec_type,
                idx, cur, hd_out, in_f, csv_reader, argv, sampler>>

\* RH.hash_q_gram_set(q_gram_set, salt_str)
CallHash ==
    /\ pc \in {"hash_test", "harden_test"}
    /\ \E Q \in IF pc = "hash_test" THEN TestQGramSets ELSE {{<<1, 2>>}},
          salt_str \in IF pc = "hash_test" THEN TestSalts ELSE {None} :
         \E q_grams \in Orders(Q) :
           LET r == hash_q_gram_set(RH, q_grams, salt_str, rng)
           IN /\ call' = [name |-> "hash_q_gram_set", by |-> "RH", q_gram_set |-> Q,
                          salt_str |-> salt_str, bf |-> <<>>]
              /\ ret' = [bf |-> r.bf, q_gram_pos_dict |-> r.q_gram_pos_dict,
                         list |-> <<>>]
              /\ rng' = r.rng
    /\ UNCHANGED <<RH, blip>>
    /\ PipelineUnchanged

\* hd_instance.harden_bf(bf)
CallHarden ==
    /\ pc \in {"hash_test", "harden_test"}
    /\ \E i \in DOMAIN blip,
          bf \in IF pc = "harden_test" THEN BitVectors(RH.bf_len)
                                       ELSE {[n \in 1..RH.bf_len |-> n % 2]} :
           LET r == harden_bf(blip[i], bf, rng)
           IN /\ call' = [name |-> "harden_bf", by |-> i, q_gram_set |-> {},
                          salt_str |-> None, bf |-> bf]
              /\ ret' = [bf |-> r.bf, q_gram_pos_dict |-> <<>>, list |-> <<>>]
              /\ rng' = r.rng
    /\ UNCHANGED <<RH, blip>>
    /\ PipelineUnchanged

\* random.shuffle(l)
CallShuffle ==
    /\ pc \in {"hash_test", "harden_test"}
    /\ LET r == random_shuffle([i \in 1..RH.bf_len |-> i], rng)
       IN /\ call' = [name |-> "shuffle", by |-> "random", q_gram_set |-> {},
                      salt_str |-> None, bf |-> <<>>]
          /\ ret' = [bf |-> <<>>, q_gram_pos_dict |-> <<>>, list |-> r.val]
          /\ rng' = r.rng
    /\ UNCHANGED <<RH, blip>>
    /\ PipelineUnchanged

NextLib == CallHash \/ CallHarden \/ CallShuffle

SpecHash == InitHash /\ [][NextLib]_vars

SpecHarden == InitHarden /\ [][NextLib]_vars

--------------------------------------------------------------------------
\* Claims about hash_q_gram_set (SpecHash)

\* C4: hash_q_gram_set is a function of (hash function, L, k, q-gram set,
\* salt) only: the vector a call returned is the vector the same instance
\* returns for the same set and salt under every iteration order of the set
\* and from every state of the generator (whatever was drawn before).
C4_EncodeDeterministic ==
    call.name = "hash_q_gram_set" =>
        \A st \in RngStates : \A q_grams \in Orders(call.q_gram_set) :
            hash_q_gram_set(RH, q_grams, call.salt_str, st).bf = ret.bf

C4_Witness ==
    /\ call.name = "hash_q_gram_set"
    /\ Cardinality(call.q_gram_set) >= 3
    /\ count1(ret.bf) >= 2
    /\ call.salt_str # None

\* C5: a hash_q_gram_set call leaves the state of the generator that later
\* harden_bf and shuffle calls draw from as it was before the call.
C5_EncodeLeavesGenerator ==
    [][call'.name = "hash_q_gram_set" => rng' = rng]_vars

\* C10: the returned vector has length bf_len; every q-gram has between 1
\* and k distinct positions, all in [0, bf_len); every 1-bit is a position of
\* some q-gram; so count(1) <= |Q| * k, and the vector is all zeros for an
\* empty set.
C10_EncodeShape ==
    call.name = "hash_q_gram_set" =>
        /\ Len(ret.bf) = RH.bf_len
        /\ \A i \in DOMAIN ret.bf : ret.bf[i] \in Bits
        /\ count1(ret.bf) <= Cardinality(call.q_gram_set) * RH.num_hash_funct
        /\ call.q_gram_set = {} => count1(ret.bf) = 0
        /\ RH.get_q_gram_pos =>
            /\ Cardinality(DOMAIN ret.q_gram_pos_dict) = Cardinality(call.q_gram_set)
            /\ \A q \in DOMAIN ret.q_gram_pos_dict :
                 /\ ret.q_gram_pos_dict[q] \subseteq 0..(RH.bf_len - 1)
                 /\ Cardinality(ret.q_gram_pos_dict[q]) \in 1..RH.num_hash_funct
            /\ \A pos \in 0..(RH.bf_len - 1) :
                 ret.bf[pos + 1] = 1 <=>
                     \E q \in DOMAIN ret.q_gram_pos_dict : pos \in ret.q_gram_pos_dict[q]

C10_Witness ==
    /\ call.name = "hash_q_gram_set"
    /\ RH.get_q_gram_pos
    /\ RH.num_hash_funct >= 2
    /\ Cardinality(call.q_gram_set) >= 2
    /\ \E q \in DOMAIN ret.q_gram_pos_dict : Cardinality(ret.q_gram_pos_dict[q]) = 1
    /\ \E q \in DOMAIN ret.q_gram_pos_dict : Cardinality(ret.q_gram_pos_dict[q]) >= 2
    /\ count1(ret.bf) < Cardinality(call.q_gram_set) * RH.num_hash_funct

\* C17: with get_q_gram_pos = True the returned position dictionary has
\* exactly the q-grams of the given set as its keys, one entry per q-gram,
\* for every set and every salt_str (None or a string).
C17_PosDictKeys ==
    (call.name = "hash_q_gram_set" /\ RH.get_q_gram_pos) =>
        DOMAIN ret.q_gram_pos_dict = call.q_gram_set

--------------------------------------------------------------------------
\* Claims about harden_bf (SpecHarden)

Complement(bf) == [i \in DOMAIN bf |-> 1 - bf[i]]

\* C6: what a BLIP instance returns depends on its own parameters and inputs
\* only: a call that is not a call of instance i (a harden_bf of the other
\* instance, a hash_q_gram_set, a shuffle) changes nothing in what
\* instance i returns next, for any input.
C6_OwnedGenerator ==
    [][\A i \in DOMAIN blip :
          call'.by # i =>
              \A bf \in BitVectors(RH.bf_len) :
                  harden_bf(blip[i], bf, rng').bf = harden_bf(blip[i], bf, rng).bf]_vars

\* C7: with sel_method 'ala' and blip_prob 1, harden_bf returns the bitwise
\* complement of its input, whatever is drawn.
C7_AlaProbOneComplements ==
    (/\ call.name = "harden_bf"
     /\ blip[call.by].sel_method = "ala"
     /\ blip[call.by].blip_prob = RngRange)
        => ret.bf = Complement(call.bf)

C7_Witness ==
    /\ call.name = "harden_bf"
    /\ blip[call.by].sel_method = "ala"
    /\ blip[call.by].blip_prob = RngRange
    /\ Range(call.bf) = {0, 1}
    /\ ret.bf = Complement(call.bf)

\* C8: with sel_method 'sch' and blip_prob 0, harden_bf returns its input
\* unchanged, whatever is drawn (a draw of 0 included).
C8_SchProbZeroIdentity ==
    (/\ call.name = "harden_bf"
     /\ blip[call.by].sel_method = "sch"
     /\ blip[call.by].blip_prob = 0)
        => ret.bf = call.bf

\* the draws of one position, from generator state st: u (as the numerator
\* of u / RngRange) and the coin flipped after it
DrawU(st) == st[1]

Coin(st) == RngNext(st)[1] % 2

RECURSIVE StateAt(_, _, _)
\* the generator state position pos of a harden_bf call starts from, when
\* the call started from st: a selected position of 'sch' takes two draws,
\* every other position one
StateAt(self, pos, st) ==
    IF pos = 0 THEN st
    ELSE LET before == StateAt(self, pos - 1, st)
         IN IF DrawU(before) <= self.blip_prob /\ self.sel_method = "sch"
               THEN RngNext(RngNext(before))
               ELSE RngNext(before)

--------------------------------------------------------------------------
\* encoder.py: the record table

FILTERED_ID_TYPES ==
    <<"f_h", "f_l", "f_a", "q_f", "q_r", "q_a", "l_h", "l_s", "l_a",
      "r1", "r2", "r3", "b">>

\* the keys of one res_dict[rec_type][sim_type]
Outcomes == {"1-1-correct", "1-1-wrong", "1-n-correct", "1-n-wrong"}

sim_types == <<"og_bf_dice", "blip_bf_dice">>

\* a record of type_wise_dict[rec_type]: its key and its attributes; an
\* attribute that is not set yet is <<>>
Rec(rec_id, q_gram_set) ==
    [rec_id |-> rec_id, q_gram_set |-> q_gram_set, og_bf |-> <<>>, hd_bf |-> <<>>]

\* the keys of a dict of records
Keys(recs) == {recs[i].rec_id : i \in DOMAIN recs}

\* recs[rec_id]
Get(recs, rec_id) == recs[CHOOSE i \in DOMAIN recs : recs[i].rec_id = rec_id]

\* data_dict[label]
TypeIndex(data, label) == CHOOSE t \in DOMAIN data : data[t].rec_type = label

\* the q-gram sets of the loaded records
LoadedQGramSets ==
    {{}, {<<1, 1>>}, {<<1, 2>>}, {<<2, 1>>, <<2, 2>>}}

\* the iteration orders Python may give the q-gram sets: one per set
OrderChoices ==
    {order \in [LoadedQGramSets -> UNION {Orders(Q) : Q \in LoadedQGramSets}] :
        \A Q \in LoadedQGramSets : order[Q] \in Orders(Q)}

\* what read_extracted_data returns: two subsets and the base sample. The
\* subset records 1 .. SubsetSize have any q-gram sets, the base records
\* share one; with off = 1 the second subset holds a record of the base
\* sample (a record identifier may come under several labels)
LoadedTables ==
    {<<[rec_type |-> "f_h",
        recs |-> [i \in 1..SubsetSize |-> Rec(i, qs[i])]],
       [rec_type |-> "r1",
        recs |-> [i \in 1..SubsetSize |->
                     LET id == SubsetSize + 1 - i + off
                     IN Rec(id, IF id <= SubsetSize THEN qs[id] ELSE bq)]],
       [rec_type |-> "b",
        recs |-> [i \in 1..BaseSampleSize |-> Rec(SubsetSize + i, bq)]]>> :
        qs \in [1..SubsetSize -> LoadedQGramSets],
        bq \in {{<<1, 1>>}, {<<2, 1>>, <<2, 2>>}},
        off \in {0, 1}}

\* a state of the generator at the start of __main__
StartRng == [i \in 1..RngWords |-> 0]

--------------------------------------------------------------------------
\* encoder.py: the input file

\* the header line read_extracted_data expects
HEADER == <<"rec_id", "q_gram_set", "type">>

\* one line of the file after the header
Row(rec_id, q_gram_set, type) ==
    [rec_id |-> rec_id, q_gram_set |-> q_gram_set, type |-> type]

\* the number of subset labels: the 12 of "base_sample_size + 12000"
NumSubsets == Len(FILTERED_ID_TYPES) - 1

\* the rows a file of the sampler has: SubsetSize records per subset label
\* and BaseSampleSize records of the base sample
TotalRows == NumSubsets * SubsetSize + BaseSampleSize

\* the q-gram set of a record: the subset records are 1 .. SubsetSize (a
\* record may be picked for several subsets), the others are base records
QGramsOf(profile, rec_id) ==
    CASE profile = "sparse" -> IF 1 < rec_id /\ rec_id <= SubsetSize THEN {}
                               ELSE {<<1, 1>>}
      [] profile = "single" -> IF rec_id > SubsetSize THEN {<<2, 1>>, <<2, 2>>}
                               ELSE IF rec_id % 2 = 1 THEN {<<1, 1>>}
                               ELSE {<<1, 2>>}
      [] OTHER              -> {<<2, 1>>, <<2, 2>>}

\* the rows as the sampler writes them: label by label, the base sample last
SampledRows(profile) ==
    [r \in 1..TotalRows |->
        IF r <= NumSubsets * SubsetSize
           THEN LET rec_id == ((r - 1) % SubsetSize) + 1
                IN Row(rec_id, QGramsOf(profile, rec_id),
                       FILTERED_ID_TYPES[((r - 1) \div SubsetSize) + 1])
           ELSE LET rec_id == SubsetSize + (r - NumSubsets * SubsetSize)
                IN Row(rec_id, QGramsOf(profile, rec_id), "b")]

\* the first row of the j-th label
FirstRowOf(j) == (j - 1) * SubsetSize + 1

\* the files read: a file of the sampler, or one that differs from it in
\* one respect
FileRows(profile, kind) ==
    LET rows == SampledRows(profile)
    IN CASE kind = "b_first" ->
              [r \in 1..TotalRows |-> rows[TotalRows + 1 - r]]
         [] kind = "bad_label_first" ->
              [rows EXCEPT ![1].type = "zz"]
         [] kind = "bad_label_last" ->
              [rows EXCEPT ![TotalRows].type = "zz"]
         [] kind = "dup_id_first" ->
              [rows EXCEPT ![FirstRowOf(1) + 1].rec_id = rows[FirstRowOf(1)].rec_id]
         [] kind = "dup_id_last" ->
              [rows EXCEPT ![FirstRowOf(NumSubsets) + 1].rec_id =
                               rows[FirstRowOf(NumSubsets)].rec_id]
         [] kind = "in_base_first" ->
              [rows EXCEPT ![FirstRowOf(1)] = [rows[TotalRows] EXCEPT !.type = rows[1].type]]
         [] kind = "in_base_last" ->
              [rows EXCEPT ![FirstRowOf(NumSubsets)] =
                               [rows[TotalRows] EXCEPT
                                   !.type = FILTERED_ID_TYPES[NumSubsets]]]
         [] kind = "short" ->
              SubSeq(rows, 1, TotalRows - 1)
         [] kind = "no_label" ->
              [r \in 1..TotalRows |->
                  IF rows[r].type = FILTERED_ID_TYPES[NumSubsets]
                     THEN [rows[r] EXCEPT !.type = FILTERED_ID_TYPES[NumSubsets - 1],
                                          !.rec_id = @ + TotalRows]
                     ELSE rows[r]]
         [] OTHER -> rows

FileKinds ==
    {"ok", "b_first", "bad_header", "bad_label_first", "bad_label_last",
     "dup_id_first", "dup_id_last", "in_base_first", "in_base_last", "short",
     "no_label"}

InputFiles ==
    {[header |-> IF kind = "bad_header" THEN <<"id", "q_gram_set", "type">> ELSE HEADER,
      rows   |-> FileRows(profile, kind)] :
        profile \in {"sparse", "single", "double"}, kind \in FileKinds}

--------------------------------------------------------------------------
\* encoder.py: read_extracted_data

\* a mutant of label_expected: any label is taken
label_expected_any(type) == TRUE

\* rec_type in FILTERED_ID_TYPES
label_expected(type) == type \in Range(FILTERED_ID_TYPES)

\* rec_type in type_wise_dict
HasType(type_wise_dict, type) ==
    \E t \in DOMAIN type_wise_dict : type_wise_dict[t].rec_type = type

\* a mutant of id_fresh: the identifier is not looked up
id_fresh_unchecked(type_wise_dict, type, rec_id) == TRUE

\* rec_list[0] not in type_wise_dict[rec_type]
id_fresh(type_wise_dict, type, rec_id) ==
    \/ ~HasType(type_wise_dict, type)
    \/ rec_id \notin Keys(type_wise_dict[TypeIndex(type_wise_dict, type)].recs)

\* recs[rec.rec_id] = rec: a new key goes last, an old key keeps its place
SetRec(recs, rec) ==
    IF rec.rec_id \in Keys(recs)
       THEN [i \in DOMAIN recs |-> IF recs[i].rec_id = rec.rec_id THEN rec ELSE recs[i]]
       ELSE Append(recs, rec)

\* type_wise_dict[rec_type][rec_list[0]] = {Q_GRAM_SET_ATTR: eval(rec_list[1])}
store_row(type_wise_dict, rec_list) ==
    LET rec == Rec(rec_list.rec_id, rec_list.q_gram_set)
    IN IF HasType(type_wise_dict, rec_list.type)
          THEN [type_wise_dict EXCEPT
                   ![TypeIndex(type_wise_dict, rec_list.type)].recs = SetRec(@, rec)]
          ELSE Append(type_wise_dict,
                      [rec_type |-> rec_list.type, recs |-> <<rec>>])

RECURSIVE SumLen(_)
\* sum(len(type_dict) for type_dict in type_wise_dict.values())
SumLen(type_wise_dict) ==
    IF type_wise_dict = <<>> THEN 0
    ELSE Len(Head(type_wise_dict).recs) + SumLen(Tail(type_wise_dict))

\* in_f = open(file_name); header_list = next(csv_reader); the assertion on it
OpenFile ==
    /\ pc = "open"
    /\ csv_reader' = 1
    /\ pc' = IF in_f.header = HEADER THEN "read" ELSE "aborted"
    /\ UNCHANGED <<rng, RH, blip, call, ret, data_dict, all_records_to_compare,
                   res_dict, rec_type, idx, cur, hd_out, in_f, argv, sampler>>

\* one pass of the loop over the rows of csv_reader
ReadRow ==
    /\ pc = "read"
    /\ csv_reader <= Len(in_f.rows)
    /\ LET rec_list == in_f.rows[csv_reader]
       IN IF /\ label_expected(rec_list.type)
             /\ id_fresh(data_dict, rec_list.type, rec_list.rec_id)
          THEN /\ data_dict' = store_row(data_dict, rec_list)
               /\ pc' = pc
          ELSE /\ pc' = "aborted"
               /\ UNCHANGED data_dict
    /\ csv_reader' = csv_reader + 1
    /\ UNCHANGED <<rng, RH, blip, call, ret, all_records_to_compare,
                   res_dict, rec_type, idx, cur, hd_out, in_f, argv, sampler>>

\* the rows are read: in_f.close(), the assertions on the number of records
\* and of record types, return type_wise_dict
CloseFile ==
    /\ pc = "read"
    /\ csv_reader > Len(in_f.rows)
    /\ pc' = IF /\ SumLen(data_dict) = BaseSampleSize + NumSubsets * SubsetSize
                /\ Len(data_dict) = Len(FILTERED_ID_TYPES)
                THEN "args" ELSE "aborted"
    /\ UNCHANGED <<rng, RH, blip, call, ret, data_dict, all_records_to_compare,
                   res_dict, rec_type, idx, cur, hd_out, in_f, csv_reader, argv, sampler>>

--------------------------------------------------------------------------
\* encoder.py: the encoding parameters

\* numpy.log(2) = 0.693147...
Ln2Num == 693147

Ln2Den == 1000000

RECURSIVE qs_list_of(_)
\* [rec_data[Q_GRAM_SET_ATTR] for rec_data in rec_type_dict.values()]
qs_list_of(recs) ==
    IF recs = <<>> THEN <<>>
    ELSE <<Head(recs).q_gram_set>> \o qs_list_of(Tail(recs))

RECURSIVE combined_qs_list_of(_)
\* combined_qs_list.extend(...) for each record type
combined_qs_list_of(data) ==
    IF data = <<>> THEN <<>>
    ELSE qs_list_of(Head(data).recs) \o combined_qs_list_of(Tail(data))

RECURSIVE SumCard(_)
\* sum of len(qs) for qs in combined_qs_list
SumCard(qs_list) ==
    IF qs_list = <<>> THEN 0
    ELSE Cardinality(Head(qs_list)) + SumCard(Tail(qs_list))

\* a mutant of calculate_k_opt: a value below 1 is raised to 1
calculate_k_opt_clamped(combined_qs_list, l_b) ==
    LET n     == Len(combined_qs_list)
        total == SumCard(combined_qs_list)
        k     == IF n = 0 \/ total = 0 THEN 0
                 ELSE (l_b * n * Ln2Num) \div (total * Ln2Den)
    IN [ok |-> TRUE, k_opt |-> IF k > 0 THEN k ELSE 1]

\* calculate_k_opt: int((l_b / avg_qs_len) * numpy.log(2)) with avg_qs_len =
\* total / n, and assert k_opt > 0. The mean of no sets is nan and a mean of
\* 0 gives inf: int() raises on both
calculate_k_opt(combined_qs_list, l_b) ==
    LET n     == Len(combined_qs_list)
        total == SumCard(combined_qs_list)
    IN IF n = 0 \/ total = 0 THEN [ok |-> FALSE, k_opt |-> 0]
       ELSE LET k == (l_b * n * Ln2Num) \div (total * Ln2Den)
            IN [ok |-> k > 0, k_opt |-> k]

\* the assertions of RandomHashing.__init__
RandomHashing_asserts(bf_len, num_hash_funct, get_q_gram_pos) ==
    /\ bf_len > 1
    /\ num_hash_funct > 0
    /\ get_q_gram_pos \in BOOLEAN

\* __main__ from bf_len = int(encoding_params[0]) to the construction of
\* RandomHashing in encode_bfs; k_ratio is the numerator of k_ratio / 2
SetEncoding ==
    /\ pc = "args"
    /\ LET combined_qs_list == combined_qs_list_of(data_dict)
           k     == calculate_k_opt(combined_qs_list, argv.bf_len)
           k_val == (argv.k_ratio * k.k_opt) \div 2
       IN IF /\ argv.bf_len > 0
             /\ argv.k_ratio \in {1, 2, 4}
             /\ Len(combined_qs_list) = BaseSampleSize + NumSubsets * SubsetSize
             /\ k.ok
             /\ RandomHashing_asserts(argv.bf_len, k_val, FALSE)
          THEN /\ RH' = RandomHashing("md5", argv.bf_len, k_val, FALSE)
               /\ pc' = "main"
          ELSE /\ pc' = "aborted"
               /\ UNCHANGED RH
    /\ UNCHANGED <<rng, blip, call, ret, data_dict, all_records_to_compare,
                   res_dict, rec_type, idx, cur, hd_out, in_f, csv_reader, argv, sampler>>

--------------------------------------------------------------------------
\* simcalc.bit_array_dice_sim: the Dice coefficient 2c / (a + b) as the
\* fraction <<numerator, denominator>>, 0 when both vectors are empty of 1s
bit_array_dice_sim(bf1, bf2) ==
    LET c == Cardinality({i \in DOMAIN bf1 : bf1[i] = 1 /\ bf2[i] = 1})
        n == count1(bf1) + count1(bf2)
    IN IF n = 0 THEN <<0, 1>> ELSE <<2 * c, n>>

\* comparison of two similarity values
SimLeq(x, y) == x[1] * y[2] <= y[1] * x[2]

SimEq(x, y) == x[1] * y[2] = y[1] * x[2]

--------------------------------------------------------------------------
\* encoder.py: encode_bfs

RECURSIVE encode_recs(_, _, _, _)
\* for rec_id, rec_data in rec_type_dict.items(): rec_data[og_bf] = RH.hash...
encode_recs(self, recs, order, st) ==
    IF recs = <<>> THEN [recs |-> <<>>, rng |-> st]
    ELSE LET h    == hash_q_gram_set(self, order[Head(recs).q_gram_set], None, st)
             rest == encode_recs(self, Tail(recs), order, h.rng)
         IN [recs |-> <<[Head(recs) EXCEPT !.og_bf = h.bf]>> \o rest.recs,
             rng |-> rest.rng]

RECURSIVE encode_types(_, _, _, _)
\* for rec_type, rec_type_dict in data_dict.items(): ...
encode_types(self, data, order, st) ==
    IF data = <<>> THEN [data |-> <<>>, rng |-> st]
    ELSE LET e    == encode_recs(self, Head(data).recs, order, st)
             rest == encode_types(self, Tail(data), order, e.rng)
         IN [data |-> <<[Head(data) EXCEPT !.recs = e.recs]>> \o rest.data,
             rng |-> rest.rng]

\* encode_bfs(data_dict, l_b, k_val); order gives the iteration order of
\* each q-gram set
encode_bfs(self, data, order, st) == encode_types(self, data, order, st)

--------------------------------------------------------------------------
\* encoder.py: compare_record_pairs

NoCur == [rec_id |-> 0, og_bf_dice_sim |-> <<>>, blip_bf_dice_sim |-> <<>>,
          max_keys |-> <<>>, outcome |-> <<>>]

NoHdOut == [i \in {"hd_instance1", "hd_instance2"} |-> <<>>]

\* __main__ after read_extracted_data and the parameter assertions
Init ==
    /\ pc = "main"
    /\ rng = StartRng
    /\ \E k \in 1..MaxK : RH = RandomHashing("md5", MaxBfLen, k, FALSE)
    /\ \E m \in {"ala", "sch"}, p \in {0, 1, RngRange} :
           blip = [i \in {"hd_instance1", "hd_instance2"} |-> BLIP(m, p, RANDOM_SEED)]
    /\ data_dict \in LoadedTables
    /\ all_records_to_compare = <<>>
    /\ res_dict = <<>>
    /\ rec_type = 1
    /\ idx = 0
    /\ cur = NoCur
    /\ hd_out = NoHdOut
    /\ call = NoCall
    /\ ret = NoRet
    /\ in_f = <<>>
    /\ csv_reader = 0
    /\ argv = [bf_len |-> RH.bf_len, k_ratio |-> 2,
               sel_method |-> blip["hd_instance1"].sel_method,
               flip_prob |-> blip["hd_instance1"].blip_prob]
    /\ sampler = NoSampler

\* assert sel_method in ["ala", "sch"]; assert 0.0 <= flip_prob <= 1.0
\* (flip_prob is the numerator of flip_prob / RngRange)
hardening_params_ok(sel_method, flip_prob) ==
    /\ sel_method \in {"ala", "sch"}
    /\ 0 <= flip_prob
    /\ flip_prob <= RngRange

\* loaded_data_dict = encode_bfs(loaded_data_dict, bf_len, k_val), then the
\* hardening parameters are set and compare_record_pairs is called, up to
\* its loop; blip holds the two instances it will construct
EncodeBfs ==
    /\ pc = "main"
    /\ \E order \in OrderChoices :
          LET e == encode_bfs(RH, data_dict, order, rng)
          IN /\ data_dict' = e.data
             /\ rng' = e.rng
    /\ IF hardening_params_ok(argv.sel_method, argv.flip_prob)
          THEN /\ blip' = [i \in {"hd_instance1", "hd_instance2"} |->
                              BLIP(argv.sel_method, argv.flip_prob, RANDOM_SEED)]
               /\ pc' = "loop"
          ELSE /\ pc' = "aborted"
               /\ UNCHANGED blip
    /\ UNCHANGED <<RH, call, ret, in_f, csv_reader, argv, sampler, all_records_to_compare,
                   res_dict, rec_type, idx, cur, hd_out>>

\* {**base_deep_copy, **rec_t_deep_copy}: the base records in their order,
\* each replaced by the subset's record of the same key, then the subset's
\* other records
merge(base, sub) ==
    [i \in DOMAIN base |->
        IF base[i].rec_id \in Keys(sub) THEN Get(sub, base[i].rec_id) ELSE base[i]]
    \o SelectSeq(sub, LAMBDA r : r.rec_id \notin Keys(base))

base_records == data_dict[TypeIndex(data_dict, "b")].recs

rec_type_dict == data_dict[rec_type].recs

\* the zeroed counters of one record type
ZeroCounters == [v \in Range(sim_types) |-> [o \in Outcomes |-> 0]]

\* rec_type == "b": continue
SkipBase ==
    /\ pc = "loop"
    /\ rec_type \in DOMAIN data_dict
    /\ data_dict[rec_type].rec_type = "b"
    /\ rec_type' = rec_type + 1
    /\ UNCHANGED <<rng, RH, blip, call, ret, in_f, csv_reader, argv, sampler, pc, data_dict, all_records_to_compare,
                   res_dict, idx, cur, hd_out>>

\* the head of the loop body: the counters are created, the pool is built
\* from deep copies and shuffled
BeginSubset ==
    /\ pc = "loop"
    /\ rec_type \in DOMAIN data_dict
    /\ data_dict[rec_type].rec_type # "b"
    /\ LET label == data_dict[rec_type].rec_type
       IN IF label \in Range(FILTERED_ID_TYPES) /\ label \notin DOMAIN res_dict
          THEN LET l == random_shuffle(merge(base_records, rec_type_dict), rng)
               IN /\ res_dict' = (label :> ZeroCounters) @@ res_dict
                  /\ all_records_to_compare' = l.val
                  /\ rng' = l.rng
                  /\ pc' = IF rec_type_dict = <<>> THEN "hardenB" ELSE "hardenA"
          ELSE /\ pc' = "aborted"
               /\ UNCHANGED <<res_dict, all_records_to_compare, rng>>
    /\ idx' = 1
    /\ cur' = NoCur
    /\ hd_out' = NoHdOut
    /\ UNCHANGED <<RH, blip, call, ret, in_f, csv_reader, argv, sampler, data_dict, rec_type>>

\* one pass of the loop of hd_instance1 over rec_type_dict
HardenSelf ==
    /\ pc = "hardenA"
    /\ LET rec_data == rec_type_dict[idx]
       IN IF rec_data.og_bf # <<>>
          THEN LET h == harden_bf(blip["hd_instance1"], rec_data.og_bf, rng)
               IN /\ data_dict' = [data_dict EXCEPT ![rec_type].recs[idx].hd_bf = h.bf]
                  /\ rng' = h.rng
                  /\ hd_out' = [hd_out EXCEPT !["hd_instance1"] =
                                    (rec_data.rec_id :> h.bf) @@ @]
                  /\ IF idx < Len(rec_type_dict)
                        THEN idx' = idx + 1 /\ pc' = pc
                        ELSE idx' = 1 /\ pc' = "hardenB"
          ELSE /\ pc' = "aborted"
               /\ UNCHANGED <<data_dict, rng, hd_out, idx>>
    /\ UNCHANGED <<RH, blip, call, ret, in_f, csv_reader, argv, sampler, all_records_to_compare, res_dict,
                   rec_type, cur>>

\* a mutant of HardenPool: the pool is not made of deep copies, so the
\* hardened vector is also written to the shared record of the base sample
HardenPool_shared ==
    /\ pc = "hardenB"
    /\ idx \in DOMAIN all_records_to_compare
    /\ LET rec_data == all_records_to_compare[idx]
           b        == TypeIndex(data_dict, "b")
       IN IF rec_data.og_bf # <<>>
          THEN LET h == harden_bf(blip["hd_instance2"], rec_data.og_bf, rng)
               IN /\ all_records_to_compare' =
                        [all_records_to_compare EXCEPT ![idx].hd_bf = h.bf]
                  /\ data_dict' =
                        [data_dict EXCEPT ![b].recs =
                            [i \in DOMAIN base_records |->
                                IF base_records[i].rec_id = rec_data.rec_id
                                   THEN [base_records[i] EXCEPT !.hd_bf = h.bf]
                                   ELSE base_records[i]]]
                  /\ rng' = h.rng
                  /\ hd_out' = [hd_out EXCEPT !["hd_instance2"] =
                                    (rec_data.rec_id :> h.bf) @@ @]
                  /\ IF idx < Len(all_records_to_compare)
                        THEN idx' = idx + 1 /\ pc' = pc
                        ELSE idx' = 1 /\ pc' = "check"
          ELSE /\ pc' = "aborted"
               /\ UNCHANGED <<all_records_to_compare, data_dict, rng, hd_out, idx>>
    /\ UNCHANGED <<RH, blip, call, ret, in_f, csv_reader, argv, sampler, res_dict, rec_type, cur>>

\* one pass of the loop of hd_instance2 over all_records_to_compare
HardenPool ==
    /\ pc = "hardenB"
    /\ idx \in DOMAIN all_records_to_compare
    /\ LET rec_data == all_records_to_compare[idx]
       IN IF rec_data.og_bf # <<>>
          THEN LET h == harden_bf(blip["hd_instance2"], rec_data.og_bf, rng)
               IN /\ all_records_to_compare' =
                        [all_records_to_compare EXCEPT ![idx].hd_bf = h.bf]
                  /\ rng' = h.rng
                  /\ hd_out' = [hd_out EXCEPT !["hd_instance2"] =
                                    (rec_data.rec_id :> h.bf) @@ @]
                  /\ IF idx < Len(all_records_to_compare)
                        THEN idx' = idx + 1 /\ pc' = pc
                        ELSE idx' = 1 /\ pc' = "check"
          ELSE /\ pc' = "aborted"
               /\ UNCHANGED <<all_records_to_compare, rng, hd_out, idx>>
    /\ UNCHANGED <<RH, blip, call, ret, in_f, csv_reader, argv, sampler, data_dict, res_dict, rec_type, cur>>

\* a mutant of CheckPoolSize: the size of the pool is not asserted
CheckPoolSize_unchecked ==
    /\ pc = "check"
    /\ pc' = IF rec_type_dict = <<>> THEN "next" ELSE "compare"
    /\ idx' = 1
    /\ UNCHANGED <<rng, RH, blip, call, ret, in_f, csv_reader, argv, sampler, data_dict,
                   all_records_to_compare, res_dict, rec_type, cur, hd_out>>

\* assert len(all_records_to_compare) == len(rec_type_dict) + len(base_records)
\*        == base_sample_size + 1000
CheckPoolSize ==
    /\ pc = "check"
    /\ IF /\ Len(all_records_to_compare) = Len(rec_type_dict) + Len(base_records)
          /\ Len(rec_type_dict) + Len(base_records) = BaseSampleSize + SubsetSize
          THEN pc' = IF rec_type_dict = <<>> THEN "next" ELSE "compare"
          ELSE pc' = "aborted"
    /\ idx' = 1
    /\ UNCHANGED <<rng, RH, blip, call, ret, in_f, csv_reader, argv, sampler, data_dict, all_records_to_compare,
                   res_dict, rec_type, cur, hd_out>>

\* a mutant of query_rec: the loop runs over the pool's copies of the subset
query_rec_pool_copy(data, pool, t, i) == Get(pool, data[t].recs[i].rec_id)

\* the record the loop of line 200 compares: rec_type_dict's own
query_rec(data, pool, t, i) == data[t].recs[i]

\* a mutant of og_sims: the candidates' hardened vectors are compared
og_sims_hardened_pool(rec_data, pool) ==
    [i \in DOMAIN pool |->
        [key |-> pool[i].rec_id,
         val |-> bit_array_dice_sim(rec_data.og_bf, pool[i].hd_bf)]]

\* the two similarity maps of one query, in the pool's iteration order
og_sims(rec_data, pool) ==
    [i \in DOMAIN pool |->
        [key |-> pool[i].rec_id,
         val |-> bit_array_dice_sim(rec_data.og_bf, pool[i].og_bf)]]

blip_sims(rec_data, pool) ==
    [i \in DOMAIN pool |->
        [key |-> pool[i].rec_id,
         val |-> bit_array_dice_sim(rec_data.hd_bf, pool[i].hd_bf)]]

RECURSIVE max_from(_, _, _)
max_from(sim_data, i, best) ==
    IF i > Len(sim_data) THEN best
    ELSE max_from(sim_data, i + 1,
                  IF SimLeq(sim_data[i].val, best) THEN best ELSE sim_data[i].val)

\* a mutant of max_value_of: the first value is taken for the maximum
max_value_of_first(sim_data) == sim_data[1].val

\* max(sim_data.values())
max_value_of(sim_data) == max_from(sim_data, 2, sim_data[1].val)

\* a mutant of max_keys_of: ties are broken, the first maximal key is kept
max_keys_first_only(sim_data, max_value) ==
    LET all == SelectSeq(sim_data, LAMBDA e : SimEq(e.val, max_value))
    IN <<all[1].key>>

\* [k for k, v in sim_data.items() if v == max_value]
max_keys_of(sim_data, max_value) ==
    LET all == SelectSeq(sim_data, LAMBDA e : SimEq(e.val, max_value))
    IN [i \in DOMAIN all |-> all[i].key]

\* a mutant of classify: the second test is len(max_keys) > 2
classify_gt2(max_keys, rec_id) ==
    IF Len(max_keys) = 1
       THEN IF max_keys[1] = rec_id THEN "1-1-correct" ELSE "1-1-wrong"
    ELSE IF Len(max_keys) > 2
       THEN IF rec_id \in Range(max_keys) THEN "1-n-correct" ELSE "1-n-wrong"
    ELSE "none"

\* the counter lines 224-233 increment ("none": neither test holds)
classify(max_keys, rec_id) ==
    IF Len(max_keys) = 1
       THEN IF max_keys[1] = rec_id THEN "1-1-correct" ELSE "1-1-wrong"
    ELSE IF Len(max_keys) > 1
       THEN IF rec_id \in Range(max_keys) THEN "1-n-correct" ELSE "1-n-wrong"
    ELSE "none"

\* res_dict[rec_type][sim_type][outcome] += 1
increment(res, label, sim_type, outcome) ==
    IF outcome \in Outcomes
       THEN [res EXCEPT ![label][sim_type][outcome] = @ + 1]
       ELSE res

\* a record carries its q-gram set, its original and its hardened vector
has_attrs(rec_data) == rec_data.og_bf # <<>> /\ rec_data.hd_bf # <<>>

\* one pass of the loop over the query records of the subset
CompareQuery ==
    /\ pc = "compare"
    /\ LET rec_data == query_rec(data_dict, all_records_to_compare, rec_type, idx)
           label    == data_dict[rec_type].rec_type
           pool     == all_records_to_compare
       IN IF has_attrs(rec_data) /\ \A i \in DOMAIN pool : has_attrs(pool[i])
          THEN LET og   == og_sims(rec_data, pool)
                   bl   == blip_sims(rec_data, pool)
                   mk   == [og_bf_dice   |-> max_keys_of(og, max_value_of(og)),
                            blip_bf_dice |-> max_keys_of(bl, max_value_of(bl))]
                   out  == [v \in Range(sim_types) |-> classify(mk[v], rec_data.rec_id)]
               IN /\ res_dict' =
                        increment(increment(res_dict, label, "og_bf_dice",
                                            out["og_bf_dice"]),
                                  label, "blip_bf_dice", out["blip_bf_dice"])
                  /\ cur' = [rec_id |-> rec_data.rec_id, og_bf_dice_sim |-> og,
                             blip_bf_dice_sim |-> bl, max_keys |-> mk,
                             outcome |-> out]
                  /\ IF idx < Len(rec_type_dict)
                        THEN idx' = idx + 1 /\ pc' = pc
                        ELSE idx' = 1 /\ pc' = "next"
          ELSE /\ pc' = "aborted"
               /\ UNCHANGED <<res_dict, cur, idx>>
    /\ UNCHANGED <<rng, RH, blip, call, ret, in_f, csv_reader, argv, sampler, data_dict, all_records_to_compare,
                   rec_type, hd_out>>

\* "Finished comparing record type": on to the next item of data_dict
FinishSubset ==
    /\ pc = "next"
    /\ rec_type' = rec_type + 1
    /\ pc' = "loop"
    /\ UNCHANGED <<rng, RH, blip, call, ret, in_f, csv_reader, argv, sampler, data_dict, all_records_to_compare,
                   res_dict, idx, cur, hd_out>>

\* a mutant of EmitTable: the table is also printed when the run has failed
EmitTable_on_failure ==
    /\ \/ pc = "loop" /\ rec_type \notin DOMAIN data_dict
       \/ pc = "aborted"
    /\ pc' = "done"
    /\ UNCHANGED <<rng, RH, blip, call, ret, in_f, csv_reader, argv, sampler, data_dict,
                   all_records_to_compare, res_dict, rec_type, idx, cur, hd_out>>

\* the loop is over: the table of res_dict is printed
EmitTable ==
    /\ pc = "loop"
    /\ rec_type \notin DOMAIN data_dict
    /\ pc' = "done"
    /\ UNCHANGED <<rng, RH, blip, call, ret, in_f, csv_reader, argv, sampler, data_dict, all_records_to_compare,
                   res_dict, rec_type, idx, cur, hd_out>>

Next ==
    \/ EncodeBfs
    \/ SkipBase
    \/ BeginSubset
    \/ HardenSelf
    \/ HardenPool
    \/ CheckPoolSize
    \/ CompareQuery
    \/ FinishSubset
    \/ EmitTable

Spec == Init /\ [][Next]_vars

--------------------------------------------------------------------------
\* A whole run of __main__: the file is read, the parameters are set, the
\* records are encoded and compared

NoRH == [hash_funct |-> "none", bf_len |-> 0, num_hash_funct |-> 0,
         get_q_gram_pos |-> FALSE]

NoBlip == [i \in {"hd_instance1", "hd_instance2"} |-> BLIP("none", 0, RANDOM_SEED)]

\* sys.argv: bf_len, k_ratio (in halves: 3 is 1.5), sel_method, flip_prob (in
\* RngRange-ths: RngRange + 1 is above 1.0)
ArgvChoices ==
    {[bf_len |-> l, k_ratio |-> kr, sel_method |-> h[1], flip_prob |-> h[2]] :
        l \in 0..MaxBfLen, kr \in {1, 2, 3, 4},
        h \in {<<"ala", 1>>, <<"sch", RngRange>>, <<"x", 1>>, <<"sch", RngRange + 1>>}}

InitRun ==
    /\ pc = "open"
    /\ rng = StartRng
    /\ RH = NoRH
    /\ blip = NoBlip
    /\ in_f \in InputFiles
    /\ csv_reader = 0
    /\ argv \in ArgvChoices
    /\ sampler = NoSampler
    /\ data_dict = <<>>
    /\ all_records_to_compare = <<>>
    /\ res_dict = <<>>
    /\ rec_type = 1
    /\ idx = 0
    /\ cur = NoCur
    /\ hd_out = NoHdOut
    /\ call = NoCall
    /\ ret = NoRet

NextRun ==
    \/ OpenFile
    \/ ReadRow
    \/ CloseFile
    \/ SetEncoding
    \/ EncodeBfs
    \/ SkipBase
    \/ BeginSubset
    \/ HardenSelf
    \/ HardenPool
    \/ CheckPoolSize
    \/ CompareQuery
    \/ FinishSubset
    \/ EmitTable

SpecRun == InitRun /\ [][NextRun]_vars

--------------------------------------------------------------------------
\* Claims about compare_record_pairs (Spec)

Label(t) == data_dict[t].rec_type

CounterSum(label, v) ==
    res_dict[label][v]["1-1-correct"] + res_dict[label][v]["1-1-wrong"]
        + res_dict[label][v]["1-n-correct"] + res_dict[label][v]["1-n-wrong"]

\* the subset at index t of data_dict is fully processed
Processed(t) ==
    /\ t \in DOMAIN data_dict
    /\ Label(t) # "b"
    /\ t < rec_type \/ (t = rec_type /\ pc = "next")

\* C1: every query record increments exactly one of the four counters of
\* each variant: while a subset is compared the four counters of a variant
\* sum to the number of queries done, and once a subset of size N is fully
\* processed they sum to N, for the original and for the hardened variant.
C1_OutcomeTotals ==
    \A t \in DOMAIN data_dict : \A v \in Range(sim_types) :
        /\ Processed(t) => CounterSum(Label(t), v) = Len(data_dict[t].recs)
        /\ (t = rec_type /\ pc = "compare") => CounterSum(Label(t), v) = idx - 1

C1_Witness ==
    /\ pc = "done"
    /\ \E l1 \in DOMAIN res_dict, l2 \in DOMAIN res_dict :
          /\ l1 # l2
          /\ res_dict[l1]["og_bf_dice"]["1-n-correct"] > 0
          /\ res_dict[l1]["blip_bf_dice"]["1-n-wrong"] > 0
          /\ res_dict[l2]["blip_bf_dice"]["1-1-wrong"] > 0
          /\ res_dict[l2]["blip_bf_dice"]["1-1-correct"] > 0

\* the candidates of the pool (a set: no order) that attain the maximum
\* similarity to the query, by the vectors of the given attribute
Maximal(q_bf, pool, attr) ==
    {c.rec_id : c \in
        {c \in pool : \A d \in pool :
            SimLeq(bit_array_dice_sim(q_bf, d[attr]), bit_array_dice_sim(q_bf, c[attr]))}}

\* the outcome the set M of maximal candidates decides for query q
OutcomeOf(M, q) ==
    IF Cardinality(M) = 1
       THEN IF M = {q} THEN "1-1-correct" ELSE "1-1-wrong"
       ELSE IF q \in M THEN "1-n-correct" ELSE "1-n-wrong"

\* C2: for each query q and each variant the counter that is incremented is
\* decided by the set M of all pool candidates attaining the maximum
\* similarity (ties kept): |M| = 1 and M = {q}: 1-1-correct; |M| = 1 and
\* M # {q}: 1-1-wrong; |M| > 1 and q in M: 1-n-correct; |M| > 1 and q not
\* in M: 1-n-wrong.  M is a set, so the order of the pool does not matter.
C2_TiesRetained ==
    [][(pc = "compare" /\ pc' # "aborted") =>
        LET q    == rec_type_dict[idx]
            pool == Range(all_records_to_compare)
            out  == [v \in Range(sim_types) |->
                        OutcomeOf(Maximal(IF v = "og_bf_dice" THEN q.og_bf ELSE q.hd_bf,
                                          pool,
                                          IF v = "og_bf_dice" THEN "og_bf" ELSE "hd_bf"),
                                  q.rec_id)]
        IN res_dict' =
              [res_dict EXCEPT ![Label(rec_type)] =
                  [v \in Range(sim_types) |->
                      [o \in Outcomes |-> @[v][o] + IF o = out[v] THEN 1 ELSE 0]]]]_vars

C2_Witness ==
    /\ cur.rec_id # 0
    /\ Len(cur.max_keys["blip_bf_dice"]) > 1
    /\ cur.outcome["blip_bf_dice"] = "1-n-correct"
    /\ cur.max_keys["blip_bf_dice"][1] # cur.rec_id
    /\ cur.outcome["og_bf_dice"] = "1-1-correct"

\* C3: double hardening.  hd_instance1 hardens the records of the subset
\* and only them; hd_instance2 hardens the members of the pool; what
\* hd_instance1 returned for a subset record stays that record's hardened
\* vector and what hd_instance2 returned stays the pool copy's; and the
\* hardened-variant similarity of a query q to a candidate c is that of
\* hd_instance1's vector of q and hd_instance2's vector of c.
C3_DoubleHardening ==
    LET hd1 == hd_out["hd_instance1"]
        hd2 == hd_out["hd_instance2"]
    IN /\ pc \in {"hardenA", "hardenB", "check", "compare", "next"} =>
            /\ DOMAIN hd1 \subseteq Keys(rec_type_dict)
            /\ \A id \in DOMAIN hd1 : Get(rec_type_dict, id).hd_bf = hd1[id]
            /\ DOMAIN hd2 \subseteq Keys(all_records_to_compare)
            /\ \A id \in DOMAIN hd2 : Get(all_records_to_compare, id).hd_bf = hd2[id]
            /\ \A i \in DOMAIN base_records : base_records[i].hd_bf = <<>>
            /\ pc # "hardenA" => DOMAIN hd1 = Keys(rec_type_dict)
            /\ pc \notin {"hardenA", "hardenB"} => DOMAIN hd2 = Keys(all_records_to_compare)
       /\ (pc \in {"compare", "next"} /\ cur.rec_id # 0) =>
            /\ {cur.blip_bf_dice_sim[i].key : i \in DOMAIN cur.blip_bf_dice_sim}
                  = Keys(all_records_to_compare)
            /\ \A i \in DOMAIN cur.blip_bf_dice_sim :
                 cur.blip_bf_dice_sim[i].val =
                     bit_array_dice_sim(hd1[cur.rec_id], hd2[cur.blip_bf_dice_sim[i].key])

C3_Witness ==
    /\ pc \in {"compare", "next"}
    /\ cur.rec_id # 0
    /\ hd_out["hd_instance1"][cur.rec_id] # hd_out["hd_instance2"][cur.rec_id]
    /\ \E i \in DOMAIN cur.blip_bf_dice_sim :
          /\ cur.blip_bf_dice_sim[i].key = cur.rec_id
          /\ ~SimEq(cur.blip_bf_dice_sim[i].val, <<1, 1>>)
          /\ ~SimEq(cur.blip_bf_dice_sim[i].val,
                    bit_array_dice_sim(hd_out["hd_instance2"][cur.rec_id],
                                       hd_out["hd_instance2"][cur.rec_id]))

\* the records of the subset at t have non-empty, pairwise disjoint q-gram
\* sets, disjoint from those of the base sample, and no two records of the
\* subset and the base sample have the same original vector
DisjointInputs(t) ==
    LET S == data_dict[t].recs
        B == base_records
    IN /\ \A i \in DOMAIN S : S[i].q_gram_set # {}
       /\ \A i \in DOMAIN S, j \in DOMAIN S :
             i # j => /\ S[i].q_gram_set \cap S[j].q_gram_set = {}
                      /\ S[i].og_bf # S[j].og_bf
       /\ \A i \in DOMAIN S, j \in DOMAIN B :
             /\ S[i].q_gram_set \cap B[j].q_gram_set = {}
             /\ S[i].og_bf # B[j].og_bf

\* C9: with flip probability 0 hardening is the identity: every record of a
\* fully processed subset with pairwise disjoint q-gram sets, disjoint from
\* the base sample's, is 1-1-correct in the original and in the hardened
\* variant.
C9_ProbZeroAllCorrect ==
    \A t \in DOMAIN data_dict : \A v \in Range(sim_types) :
        (/\ Processed(t)
         /\ blip["hd_instance1"].blip_prob = 0
         /\ DisjointInputs(t))
            => res_dict[Label(t)][v] =
                   [o \in Outcomes |->
                       IF o = "1-1-correct" THEN Len(data_dict[t].recs) ELSE 0]

\* the subset at rec_type is being processed (or the run aborted in it)
InSubset ==
    /\ pc \in {"hardenA", "hardenB", "check", "compare", "next", "aborted"}
    /\ rec_type \in DOMAIN data_dict
    /\ Label(rec_type) \in DOMAIN res_dict

\* C14: while the records of a subset S are compared the pool holds exactly
\* one record per record of S and per record of the base sample B, so
\* |S| + |B| records; and when the merged pool of S has another size (an
\* identifier of S is also one of B) the subset never gets to the
\* comparison: every counter of S stays 0.
C14_PoolSizeChecked ==
    /\ pc = "compare" =>
          /\ Len(all_records_to_compare) = Len(rec_type_dict) + Len(base_records)
          /\ Keys(all_records_to_compare) = Keys(rec_type_dict) \cup Keys(base_records)
          /\ Cardinality(Keys(all_records_to_compare)) = Len(all_records_to_compare)
    /\ (InSubset /\ Keys(rec_type_dict) \cap Keys(base_records) # {}) =>
          /\ pc \notin {"compare", "next"}
          /\ res_dict[Label(rec_type)] = ZeroCounters

\* the run aborted on the size of the pool of the second subset, after both
\* hardening passes, with the first subset counted
C14_Witness ==
    /\ pc = "aborted"
    /\ InSubset
    /\ Len(all_records_to_compare) < Len(rec_type_dict) + Len(base_records)
    /\ DOMAIN hd_out["hd_instance2"] = Keys(all_records_to_compare)
    /\ res_dict[Label(rec_type)] = ZeroCounters
    /\ \E label \in DOMAIN res_dict : CounterSum(label, "og_bf_dice") = SubsetSize

\* the 1-bits two vectors share
Common(A, B) == Cardinality({i \in DOMAIN A : A[i] = 1 /\ B[i] = 1})

\* the value v = <<numerator, denominator>> is the Dice coefficient of A, B
IsDice(v, A, B) ==
    /\ v[2] > 0
    /\ 0 <= v[1]
    /\ v[1] <= v[2]
    /\ count1(A) + count1(B) > 0 =>
          v[1] * (count1(A) + count1(B)) = 2 * Common(A, B) * v[2]
    /\ count1(A) + count1(B) = 0 => v[1] = 0
    /\ (A = B /\ count1(A) > 0) => v[1] = v[2]

C19_OriginalNeverWrong ==
    /\ \A label \in DOMAIN res_dict :
          /\ res_dict[label]["og_bf_dice"]["1-1-wrong"] = 0
          /\ res_dict[label]["og_bf_dice"]["1-n-wrong"] = 0
    /\ (pc \in {"compare", "next"} /\ cur.rec_id # 0) =>
          /\ cur.rec_id \in Range(cur.max_keys["og_bf_dice"])
          /\ cur.outcome["og_bf_dice"] =
                IF Len(cur.max_keys["og_bf_dice"]) = 1 THEN "1-1-correct"
                ELSE "1-n-correct"

\* the last query has an all-zero original vector: every candidate ties
\* with it at 0, also one whose vector is not all zeros
C19_Witness ==
    /\ pc \in {"compare", "next"}
    /\ cur.rec_id # 0
    /\ count1(Get(rec_type_dict, cur.rec_id).og_bf) = 0
    /\ cur.outcome["og_bf_dice"] = "1-n-correct"
    /\ Len(cur.max_keys["og_bf_dice"]) = Len(all_records_to_compare)
    /\ \E i \in DOMAIN all_records_to_compare :
          count1(all_records_to_compare[i].og_bf) > 0

\* what a step of the processing of a subset does to the record table
TableStep ==
    pc \in {"loop", "hardenA", "hardenB", "check", "compare", "next"} =>
        /\ DOMAIN data_dict' = DOMAIN data_dict
        /\ \A t \in DOMAIN data_dict :
              /\ data_dict'[t].rec_type = data_dict[t].rec_type
              /\ DOMAIN data_dict'[t].recs = DOMAIN data_dict[t].recs
              /\ \A i \in DOMAIN data_dict[t].recs :
                    LET old == data_dict[t].recs[i]
                        new == data_dict'[t].recs[i]
                    IN /\ new.rec_id = old.rec_id
                       /\ new.q_gram_set = old.q_gram_set
                       /\ new.og_bf = old.og_bf
                       /\ (new.hd_bf # old.hd_bf) =>
                             (pc = "hardenA" /\ t = rec_type /\ i = idx /\ Label(t) # "b")

\* C20: a step of the processing of a subset leaves the record table as it
\* was but for the hardened vector of one record of that subset, written by
\* the subset's own hardening pass: the labels, the identifiers, the q-gram
\* sets and the original vectors stay, and no record of the base sample or
\* of another subset gains or changes a hardened vector.
C20_TableFrame == [][TableStep]_vars

\* the second subset is done: its records and those of the first subset
\* (the same identifiers) carry their own hardened vectors, the pool copies
\* of the base sample are hardened and the base sample's records are not
C20_Witness ==
    /\ pc = "next"
    /\ rec_type = 2
    /\ \A i \in DOMAIN data_dict[1].recs : data_dict[1].recs[i].hd_bf # <<>>
    /\ \A i \in DOMAIN data_dict[2].recs : data_dict[2].recs[i].hd_bf # <<>>
    /\ \E i \in DOMAIN data_dict[1].recs :
          data_dict[1].recs[i].hd_bf
              # Get(data_dict[2].recs, data_dict[1].recs[i].rec_id).hd_bf
    /\ \A i \in DOMAIN base_records :
          /\ base_records[i].hd_bf = <<>>
          /\ Get(all_records_to_compare, base_records[i].rec_id).hd_bf # <<>>

--------------------------------------------------------------------------
\* Claims about a whole run (SpecRun)

RECURSIVE RowsCard(_)
\* the q-grams of all rows of the file, counted with repetition
RowsCard(rows) ==
    IF rows = <<>> THEN 0
    ELSE Cardinality(Head(rows).q_gram_set) + RowsCard(Tail(rows))

\* floor((L / mean q-gram-set length) * ln 2) for the rows of the file
KOptOfFile == (argv.bf_len * Len(in_f.rows) * Ln2Num) \div (RowsCard(in_f.rows) * Ln2Den)

\* some record carries an original vector
SomeEncoded ==
    \E t \in DOMAIN data_dict : \E i \in DOMAIN data_dict[t].recs :
        data_dict[t].recs[i].og_bf # <<>>

\* C11: whenever the filter length L is <= 1, or k_opt = floor((L / mean
\* q-gram-set length) * ln 2) is <= 0, or floor(k_ratio * k_opt) is <= 0, the
\* run never gets to encode_bfs' loop: no record is ever encoded, no
\* RandomHashing instance exists, and the run ends aborted.
C11_InvalidEncodingFatal ==
    (\/ argv.bf_len <= 1
     \/ KOptOfFile <= 0
     \/ (argv.k_ratio * KOptOfFile) \div 2 <= 0)
        => /\ ~SomeEncoded
           /\ RH = NoRH
           /\ pc \in {"open", "read", "args", "aborted"}

\* the file was read and returned, k_opt = 1 and k_ratio = 0.5: the run
\* aborted on the hash count 0
C11_Witness ==
    /\ pc = "aborted"
    /\ csv_reader > Len(in_f.rows)
    /\ SumLen(data_dict) = TotalRows
    /\ Len(data_dict) = Len(FILTERED_ID_TYPES)
    /\ argv.bf_len > 1
    /\ KOptOfFile = 1
    /\ argv.k_ratio = 1
    /\ ~SomeEncoded

\* read_extracted_data has returned its table and the run goes on
Returned == pc \notin {"open", "read", "aborted"}

\* the labels of the returned table
LabelsOf(data) == {data[t].rec_type : t \in DOMAIN data}

\* the table holds record rec_id under the label, with that q-gram set
Stored(data, type, rec_id, q_gram_set) ==
    \E t \in DOMAIN data :
        /\ data[t].rec_type = type
        /\ \E i \in DOMAIN data[t].recs :
              /\ data[t].recs[i].rec_id = rec_id
              /\ data[t].recs[i].q_gram_set = q_gram_set

\* C12: a row whose label is not one of the 13 tags is never read past: the
\* run is aborted at that row and no table is returned; no record is ever
\* stored under a label outside the 13; the table read_extracted_data
\* returns holds every record under exactly the labels of its rows, with the
\* q-gram set of its row, and all 13 labels are present.
C12_LabelsChecked ==
    /\ \A r \in DOMAIN in_f.rows :
          in_f.rows[r].type \notin Range(FILTERED_ID_TYPES) =>
              /\ csv_reader <= r + 1
              /\ csv_reader = r + 1 => pc = "aborted"
              /\ ~Returned
    /\ LabelsOf(data_dict) \subseteq Range(FILTERED_ID_TYPES)
    /\ Returned => LabelsOf(data_dict) = Range(FILTERED_ID_TYPES)
    /\ pc = "args" =>
          /\ \A r \in DOMAIN in_f.rows :
                Stored(data_dict, in_f.rows[r].type, in_f.rows[r].rec_id,
                       in_f.rows[r].q_gram_set)
          /\ \A t \in DOMAIN data_dict : \A i \in DOMAIN data_dict[t].recs :
                \E r \in DOMAIN in_f.rows :
                    /\ in_f.rows[r].type = data_dict[t].rec_type
                    /\ in_f.rows[r].rec_id = data_dict[t].recs[i].rec_id

\* the run aborted at a row with an unknown label, after rows were stored
C12_Witness ==
    /\ pc = "aborted"
    /\ csv_reader > 2
    /\ csv_reader - 1 \in DOMAIN in_f.rows
    /\ in_f.rows[csv_reader - 1].type \notin Range(FILTERED_ID_TYPES)
    /\ Len(data_dict) = NumSubsets
    /\ SumLen(data_dict) = csv_reader - 2

\* an earlier row of the file has the identifier and the label of row r
RepeatsEarlier(r) ==
    \E i \in 1..(r - 1) :
        /\ in_f.rows[i].rec_id = in_f.rows[r].rec_id
        /\ in_f.rows[i].type = in_f.rows[r].type

\* the number of entries the table holds for rec_id under the label
Entries(data, type, rec_id) ==
    IF \E t \in DOMAIN data : data[t].rec_type = type
       THEN LET recs == data[CHOOSE t \in DOMAIN data : data[t].rec_type = type].recs
            IN Cardinality({i \in DOMAIN recs : recs[i].rec_id = rec_id})
       ELSE 0

\* C13: when the row being read repeats the identifier of an earlier row of
\* the same label, the run is aborted at that row and the table is left as it
\* was; when it does not (and its label is one of the 13) the row is
\* accepted, whether or not the identifier is already stored under other
\* labels: the record is then stored once under its label and what is stored
\* under the other labels stays.
C13_DuplicateIdFatal ==
    [][(pc = "read" /\ csv_reader <= Len(in_f.rows)) =>
          LET row == in_f.rows[csv_reader]
          IN /\ RepeatsEarlier(csv_reader) =>
                  /\ pc' = "aborted"
                  /\ data_dict' = data_dict
             /\ (~RepeatsEarlier(csv_reader)
                     /\ row.type \in Range(FILTERED_ID_TYPES)) =>
                  /\ pc' = "read"
                  /\ Entries(data_dict', row.type, row.rec_id) = 1
                  /\ \A type \in Range(FILTERED_ID_TYPES) \ {row.type} :
                        Entries(data_dict', type, row.rec_id)
                            = Entries(data_dict, type, row.rec_id)]_vars

\* the run aborted at a row that repeats an identifier of its label, and the
\* same identifier is stored under other labels
C13_Witness ==
    /\ pc = "aborted"
    /\ csv_reader - 1 \in DOMAIN in_f.rows
    /\ RepeatsEarlier(csv_reader - 1)
    /\ Entries(data_dict, in_f.rows[csv_reader - 1].type,
               in_f.rows[csv_reader - 1].rec_id) = 1
    /\ \E type \in Range(FILTERED_ID_TYPES) \ {in_f.rows[csv_reader - 1].type} :
          Entries(data_dict, type, in_f.rows[csv_reader - 1].rec_id) = 1

\* C15: the result table is emitted (pc = "done") once, and only when every
\* subset label other than the base sample has been fully processed: each
\* has its row and the row counts all its records in both variants; a run
\* that aborted, wherever it did, never emits a table afterwards, and nothing
\* follows the emission.
C15_NoPartialOutput ==
    /\ [](pc = "done" =>
            /\ LabelsOf(data_dict) = Range(FILTERED_ID_TYPES)
            /\ DOMAIN res_dict = Range(FILTERED_ID_TYPES) \ {"b"}
            /\ \A t \in DOMAIN data_dict :
                  Label(t) # "b" =>
                      /\ Processed(t)
                      /\ \A v \in Range(sim_types) :
                            CounterSum(Label(t), v) = Len(data_dict[t].recs))
    /\ [][/\ pc = "aborted" => pc' = "aborted"
          /\ pc = "done" => pc' = "done"
          /\ pc' = "done" => (pc = "done" \/ (pc = "loop" /\ rec_type \notin DOMAIN data_dict))]_vars

\* the run aborted in its last subset: all the others are completed and
\* counted, and no table was emitted
C15_Witness ==
    /\ pc = "aborted"
    /\ Cardinality(DOMAIN res_dict) = NumSubsets
    /\ Cardinality({label \in DOMAIN res_dict :
                       CounterSum(label, "blip_bf_dice") = SubsetSize}) = NumSubsets - 1

--------------------------------------------------------------------------
\* src/data-sampler/main.py: process_based_on_freq
\*
\* Record ids are the positions of the records in rec_qs_dict (a dict keeps
\* its insertion order); q-grams are 1 .. NumQGrams.  q_dict and
\* sorted_q_dict are sequences of items <<q-gram, frequency>>; Python index
\* i is index i + 1 and Python index -i is index Len - i + 1.

\* distinct q-grams of the database
NumQGrams == 3
\* most records of the database
MaxRecs == 3
\* records per sampled subset (1000 in the sampler)
SampleSize == 2

\* levels avg_freq +/- avg_variation that can hold a q-gram: every frequency
\* and avg_freq itself lie in 1 .. MaxRecs.  The search of lines 256-265 has
\* no bound of its own: a run that is past this level with no key found
\* finds none at any later level and searches forever.
MaxVariation == MaxRecs + 1

QGramSets == (SUBSET (1..NumQGrams)) \ {{}}

\* the q-grams of the first n records
seen_q_grams(qs_dict, n) == UNION {qs_dict[i] : i \in 1..n}

\* qs_dict as generate_database_q_gram_sets returns it: no q-gram set is
\* empty (line 87) and no two records have the same one (line 90).  A
\* q-gram is named by its position among the keys of q_store (lines
\* 122-127): the q-grams of a record that are new there are the next
\* numbers, in the order in which the record's set is iterated.
Databases ==
    UNION {{d \in [1..n -> QGramSets] :
                /\ \A i, j \in 1..n : i # j => d[i] # d[j]
                /\ \A i \in 1..n :
                      seen_q_grams(d, i) = 1..Cardinality(seen_q_grams(d, i))} :
             n \in 0..MaxRecs}

\* get_q_gram_store(qs_dict): the items <<q-gram, frequency>> of q_store in
\* insertion order
get_q_gram_store(qs_dict) ==
    [q \in 1..Cardinality(seen_q_grams(qs_dict, Len(qs_dict))) |->
        <<q, Cardinality({i \in DOMAIN qs_dict : q \in qs_dict[i]})>>]

\* sorted(q_dict.items(), key=lambda x: x[1], reverse=True): the sort is
\* stable, items of one frequency keep the order of q_dict
sorted_items(q_dict) ==
    LET n == Len(q_dict)
        rank(i) == 1 + Cardinality({j \in 1..n :
                                      \/ q_dict[j][2] > q_dict[i][2]
                                      \/ q_dict[j][2] = q_dict[i][2] /\ j < i})
    IN [r \in 1..n |-> q_dict[CHOOSE i \in 1..n : rank(i) = r]]

\* the loop of lines 183-187, from record i on
RECURSIVE first_pass(_, _, _, _, _, _)
first_pass(rec_qs_dict, i, most_freq_q, least_freq_q, most, least) ==
    IF i > Len(rec_qs_dict) THEN [most |-> most, least |-> least]
    ELSE IF Cardinality(most) < SampleSize /\ most_freq_q \in rec_qs_dict[i]
    THEN first_pass(rec_qs_dict, i + 1, most_freq_q, least_freq_q,
                    most \cup {i}, least)
    ELSE IF Cardinality(least) < SampleSize /\ least_freq_q \in rec_qs_dict[i]
    THEN first_pass(rec_qs_dict, i + 1, most_freq_q, least_freq_q,
                    most, least \cup {i})
    ELSE first_pass(rec_qs_dict, i + 1, most_freq_q, least_freq_q, most, least)

\* len(l[:1000]) for a list of n items
sliced_len(n) == IF n < SampleSize THEN n ELSE SampleSize

\* the for loop of lines 215-220 (and 231-236), from record i on
RECURSIVE fill_scan(_, _, _, _)
fill_scan(rec_qs_dict, i, freq_q, recs) ==
    IF i > Len(rec_qs_dict) THEN recs
    ELSE LET added == IF freq_q \in rec_qs_dict[i] THEN recs \cup {i} ELSE recs
         IN IF Cardinality(added) >= SampleSize THEN added
            ELSE fill_scan(rec_qs_dict, i + 1, freq_q, added)

\* sum(q_dict.values())
RECURSIVE sum_values(_)
sum_values(sorted_q_dict) ==
    IF sorted_q_dict = <<>> THEN 0
    ELSE sorted_q_dict[1][2] + sum_values(Tail(sorted_q_dict))

\* [key for key, value in dict(sorted_q_dict).items() if int(value) == freq]
keys_with_value(sorted_q_dict, freq) ==
    {sorted_q_dict[i][1] :
        i \in {j \in DOMAIN sorted_q_dict : sorted_q_dict[j][2] = freq}}

\* only the level below avg_freq is searched
widen_keys_below(sorted_q_dict, avg_freq, avg_variation) ==
    keys_with_value(sorted_q_dict, avg_freq - avg_variation)

\* lines 257-261: the keys of both levels at distance avg_variation
widen_keys(sorted_q_dict, avg_freq, avg_variation) ==
    keys_with_value(sorted_q_dict, avg_freq + avg_variation)
        \cup keys_with_value(sorted_q_dict, avg_freq - avg_variation)

\* the for loop of lines 267-272, from record i on
RECURSIVE avg_scan(_, _, _, _)
avg_scan(rec_qs_dict, i, keys_with_avg_value, recs) ==
    IF i > Len(rec_qs_dict) THEN recs
    ELSE LET added == IF rec_qs_dict[i] \cap keys_with_avg_value # {}
                      THEN recs \cup {i} ELSE recs
         IN IF Cardinality(added) = SampleSize THEN added
            ELSE avg_scan(rec_qs_dict, i + 1, keys_with_avg_value, added)

\* the call process_based_on_freq(db_qs_dict, q_gram_store1) of line 301
InitSampler ==
    /\ pc = "freq"
    /\ \E db_qs_dict \in Databases :
          sampler = [rec_qs_dict |-> db_qs_dict,
                     q_dict |-> get_q_gram_store(db_qs_dict),
                     sorted_q_dict |-> <<>>,
                     most_freq_q_recs |-> {},
                     least_freq_q_recs |-> {},
                     most_f_q_index |-> 0,
                     least_f_q_index |-> 0,
                     avg_freq_q_recs |-> {},
                     avg_freq |-> 0,
                     avg_variation |-> 0,
                     keys_with_avg_value |-> {}]
    /\ rng = StartRng
    /\ RH = NoRH
    /\ blip = NoBlip
    /\ call = NoCall
    /\ ret = NoRet
    /\ data_dict = <<>>
    /\ all_records_to_compare = <<>>
    /\ res_dict = <<>>
    /\ rec_type = 0
    /\ idx = 0
    /\ cur = <<>>
    /\ hd_out = <<>>
    /\ in_f = <<>>
    /\ csv_reader = 0
    /\ argv = <<>>

LinkageUnchanged ==
    UNCHANGED <<rng, RH, blip, call, ret, data_dict, all_records_to_compare,
                res_dict, rec_type, idx, cur, hd_out, in_f, csv_reader, argv>>

\* lines 173-210: the sort, the first pass over the records, the three
\* subsets by weighted score and their assertion.  sorted_q_dict[0] of an
\* empty list is an IndexError.
ScoreRecords ==
    /\ pc = "freq"
    /\ LET sorted_q_dict == sorted_items(sampler.q_dict)
       IN IF sorted_q_dict = <<>>
             \/ sliced_len(Len(sampler.rec_qs_dict)) # SampleSize
          THEN /\ pc' = "aborted"
               /\ UNCHANGED sampler
          ELSE LET r == first_pass(sampler.rec_qs_dict, 1,
                                   sorted_q_dict[1][1],
                                   sorted_q_dict[Len(sorted_q_dict)][1],
                                   {}, {})
               IN /\ sampler' = [sampler EXCEPT
                                    !.sorted_q_dict = sorted_q_dict,
                                    !.most_freq_q_recs = r.most,
                                    !.least_freq_q_recs = r.least,
                                    !.most_f_q_index = 0]
                  /\ pc' = "fill_most"
    /\ LinkageUnchanged

\* lines 211-220: one turn of the while loop; sorted_q_dict[most_f_q_index]
\* past the end of the list is an IndexError
FillMost ==
    /\ pc = "fill_most"
    /\ Cardinality(sampler.most_freq_q_recs) < SampleSize
    /\ LET most_f_q_index == sampler.most_f_q_index + 1
       IN IF most_f_q_index >= Len(sampler.sorted_q_dict)
          THEN /\ pc' = "aborted"
               /\ sampler' = [sampler EXCEPT !.most_f_q_index = most_f_q_index]
          ELSE /\ sampler' = [sampler EXCEPT
                                 !.most_f_q_index = most_f_q_index,
                                 !.most_freq_q_recs =
                                     fill_scan(sampler.rec_qs_dict, 1,
                                               sampler.sorted_q_dict[most_f_q_index + 1][1],
                                               @)]
               /\ pc' = "fill_most"
    /\ LinkageUnchanged

\* lines 222-226: the loop is left
MostFilled ==
    /\ pc = "fill_most"
    /\ Cardinality(sampler.most_freq_q_recs) >= SampleSize
    /\ IF Cardinality(sampler.most_freq_q_recs) = SampleSize
       THEN /\ sampler' = [sampler EXCEPT !.least_f_q_index = 1]
            /\ pc' = "fill_least"
       ELSE /\ pc' = "aborted"
            /\ UNCHANGED sampler
    /\ LinkageUnchanged

\* lines 227-236: one turn of the while loop; sorted_q_dict[-least_f_q_index]
\* before the start of the list is an IndexError
FillLeast ==
    /\ pc = "fill_least"
    /\ Cardinality(sampler.least_freq_q_recs) < SampleSize
    /\ LET least_f_q_index == sampler.least_f_q_index + 1
       IN IF least_f_q_index > Len(sampler.sorted_q_dict)
          THEN /\ pc' = "aborted"
               /\ sampler' = [sampler EXCEPT !.least_f_q_index = least_f_q_index]
          ELSE /\ sampler' = [sampler EXCEPT
                                 !.least_f_q_index = least_f_q_index,
                                 !.least_freq_q_recs =
                                     fill_scan(sampler.rec_qs_dict, 1,
                                               sampler.sorted_q_dict[Len(sampler.sorted_q_dict)
                                                                     - least_f_q_index + 1][1],
                                               @)]
               /\ pc' = "fill_least"
    /\ LinkageUnchanged

\* lines 238-253: the loop is left; avg_freq and the keys of that frequency
LeastFilled ==
    /\ pc = "fill_least"
    /\ Cardinality(sampler.least_freq_q_recs) >= SampleSize
    /\ IF Cardinality(sampler.least_freq_q_recs) = SampleSize
       THEN LET mean == sum_values(sampler.sorted_q_dict) \div Len(sampler.sorted_q_dict)
                avg_freq == IF mean > sampler.sorted_q_dict[1][2]
                            THEN sampler.sorted_q_dict[1][2] ELSE mean
            IN /\ sampler' = [sampler EXCEPT
                                 !.avg_freq_q_recs = {},
                                 !.avg_freq = avg_freq,
                                 !.avg_variation = 1,
                                 !.keys_with_avg_value =
                                     keys_with_value(sampler.sorted_q_dict, avg_freq)]
               /\ pc' = "avg"
       ELSE /\ pc' = "aborted"
            /\ UNCHANGED sampler
    /\ LinkageUnchanged

\* lines 256-265: one turn of the inner while loop
Widen ==
    /\ pc = "avg"
    /\ Cardinality(sampler.avg_freq_q_recs) < SampleSize
    /\ sampler.keys_with_avg_value = {}
    /\ sampler.avg_variation <= MaxVariation
    /\ sampler' = [sampler EXCEPT
                      !.keys_with_avg_value =
                          widen_keys(sampler.sorted_q_dict, sampler.avg_freq,
                                     sampler.avg_variation),
                      !.avg_variation = @ + 1]
    /\ pc' = "avg"
    /\ LinkageUnchanged

\* lines 267-278: the records holding a key of the level found
ScanAvg ==
    /\ pc = "avg"
    /\ Cardinality(sampler.avg_freq_q_recs) < SampleSize
    /\ sampler.keys_with_avg_value # {}
    /\ sampler' = [sampler EXCEPT
                      !.avg_freq_q_recs =
                          avg_scan(sampler.rec_qs_dict, 1,
                                   sampler.keys_with_avg_value, @),
                      !.keys_with_avg_value = {}]
    /\ pc' = "avg"
    /\ LinkageUnchanged

\* lines 280-284: the outer loop is left, the last assertion, the return
ReturnSubsets ==
    /\ pc = "avg"
    /\ Cardinality(sampler.avg_freq_q_recs) >= SampleSize
    /\ pc' = IF /\ Cardinality(sampler.most_freq_q_recs) = SampleSize
                /\ Cardinality(sampler.least_freq_q_recs) = SampleSize
                /\ Cardinality(sampler.avg_freq_q_recs) = SampleSize
             THEN "returned" ELSE "aborted"
    /\ UNCHANGED sampler
    /\ LinkageUnchanged

NextSampler ==
    \/ ScoreRecords
    \/ FillMost
    \/ MostFilled
    \/ FillLeast
    \/ LeastFilled
    \/ Widen
    \/ ScanAvg
    \/ ReturnSubsets

\* a Python process runs its next statement as long as it has one
SpecSampler == InitSampler /\ [][NextSampler]_vars /\ WF_vars(NextSampler)

--------------------------------------------------------------------------
\* Claims about the sampler (SpecSampler)

\* C21: process_based_on_freq, called with at least SampleSize records
\* (their q-gram sets non-empty and pairwise distinct), terminates: the two
\* fill loops and the widening search of the average frequency end, no
\* assertion or index fails, and it returns exactly SampleSize record ids
\* for each of the three q-gram-frequency subsets.
C21_SelectionTerminates ==
    (pc = "freq" /\ Len(sampler.rec_qs_dict) >= SampleSize)
        => <>(/\ pc = "returned"
              /\ Cardinality(sampler.most_freq_q_recs) = SampleSize
              /\ Cardinality(sampler.least_freq_q_recs) = SampleSize
              /\ Cardinality(sampler.avg_freq_q_recs) = SampleSize)

\* a call with more records than it samples returned, after the fill loop of
\* the least frequent q-grams went on to a further q-gram and the search of
\* the average frequency widened
C21_Witness ==
    /\ pc = "returned"
    /\ Len(sampler.rec_qs_dict) > SampleSize
    /\ sampler.least_f_q_index > 1
    /\ sampler.avg_variation > 1

====
